---- MODULE Spec2Model ----
(***************************************************************************)
(* A model of src/src/miner.py: the bootstrap main() and the inference     *)
(* handler NyaComputeMiner (its constructor, batch_encode and compute).    *)
(*                                                                         *)
(* Conventions.  An optional value (Python None or a value) is a sequence  *)
(* of length 0 or 1.  A Python string is a sequence of characters.  A      *)
(* value that argparse leaves either as an int (a default) or as a str (a  *)
(* value given on the command line) is a record [t, s, n]: t its type,     *)
(* s its characters when a str, n its number when an int.                  *)
(***************************************************************************)
EXTENDS Integers, Sequences, FiniteSets, TLC

VARIABLES cli, key_file_exists, cuda_available,
          mainpc, error, args, port, key, miner, server, bound, reqs

vars == <<cli, key_file_exists, cuda_available,
          mainpc, error, args, port, key, miner, server, bound, reqs>>

(***************************************************************************)
(* Bounds of the model.                                                    *)
(***************************************************************************)
\* the tokenizer's fixed padded sequence length L (model_max_length)
MaxLength == 3
\* the number of vocabulary entries a modelled logit vector holds explicitly
NumPeaks == 20

(***************************************************************************)
(* Program constants.                                                      *)
(***************************************************************************)
MapBatchSize == 64
LoaderBatchSize == 64
TopKSize == 16
DefaultPort == 9910
DefaultBatchSize == 64
DefaultSubnetUid == 23
TestnetUid == 23
BucketCapacity == 30
RefillRate == 1
\* vocabulary of distilbert/distilbert-base-uncased, the model loaded at
\* construction; its special tokens
VocabSize == 30522
PadId == 0
ClsId == 101
SepId == 102

(***************************************************************************)
(* Python values.                                                          *)
(***************************************************************************)
PyInt(n) == [t |-> "int", s |-> <<>>, n |-> n]
PyStr(s) == [t |-> "str", s |-> s, n |-> 0]

\* Python's == on an int or a str: values of different types are unequal
PyEq(a, b) == a.t = b.t /\ a.s = b.s /\ a.n = b.n

\* characters for which str.isdigit() holds: the decimal digits and digit
\* characters such as SUPERSCRIPT TWO, which int() does not accept
DecimalChars == {"0", "1", "2", "3", "4", "5", "6", "7", "8", "9"}
DigitChars == DecimalChars \cup {"sup2"}

\* str.isdigit(): non-empty, and every character a digit
IsDigit(s) == Len(s) > 0 /\ \A i \in 1..Len(s) : s[i] \in DigitChars

DigitValue(c) ==
    CASE c = "0" -> 0 [] c = "1" -> 1 [] c = "2" -> 2 [] c = "3" -> 3
      [] c = "4" -> 4 [] c = "5" -> 5 [] c = "6" -> 6 [] c = "7" -> 7
      [] c = "8" -> 8 [] c = "9" -> 9

RECURSIVE DecimalValue(_)
DecimalValue(s) ==
    IF Len(s) = 0 THEN 0
    ELSE 10 * DecimalValue(SubSeq(s, 1, Len(s) - 1)) + DigitValue(s[Len(s)])

\* int(s) parses s: an optional sign, then decimal digits and nothing else
\* (surrounding blanks and underscores between digits are not modelled)
IntParses(s) ==
    LET digits == IF Len(s) > 0 /\ s[1] \in {"-", "+"} THEN Tail(s) ELSE s
    IN  Len(digits) > 0 /\ \A i \in 1..Len(digits) : digits[i] \in DecimalChars

(***************************************************************************)
(* The tokenizer: batch_encode.                                            *)
(***************************************************************************)
\* a text is a sequence of words; each word is one entry of the vocabulary
WordId(w) ==
    CASE w = "the" -> 1996 [] w = "cat" -> 4937 [] w = "sat" -> 2938
      [] w = "[MASK]" -> 103

Min(a, b) == IF a < b THEN a ELSE b

\* truncation=True, padding="max_length": [CLS] words [SEP] cut to MaxLength
\* tokens, then padded with [PAD]
EncodeText(text) ==
    LET kept == Min(Len(text), MaxLength - 2)
    IN  [input_ids |->
            [p \in 1..MaxLength |->
                IF p = 1 THEN ClsId
                ELSE IF p <= kept + 1 THEN WordId(text[p - 1])
                ELSE IF p = kept + 2 THEN SepId
                ELSE PadId],
         attention_mask |->
            [p \in 1..MaxLength |-> IF p <= kept + 2 THEN 1 ELSE 0]]

\* the tokenizer called on the texts of one batch: one row per text
batch_encode(batch) ==
    [input_ids |-> [i \in 1..Len(batch) |-> EncodeText(batch[i]).input_ids],
     attention_mask |->
        [i \in 1..Len(batch) |-> EncodeText(batch[i]).attention_mask]]

(***************************************************************************)
(* Dataset.map, DataLoader and the tensor operations of compute.           *)
(***************************************************************************)
CeilDiv(a, b) == (a + b - 1) \div b

\* the k-th chunk of at most size consecutive items of a sequence
Chunk(seq, size, k) == SubSeq(seq, (k - 1) * size + 1, Min(k * size, Len(seq)))

NumChunks(seq, size) == CeilDiv(Len(seq), size)

\* input_data.map(self.batch_encode, batched=True, remove_columns=["text"],
\* batch_size=64): batch_encode on each chunk of texts; the rows of the
\* chunks, in order, are the rows of the encoded dataset
MapEncode(task) ==
    [i \in 1..Len(task) |->
        LET k == CeilDiv(i, MapBatchSize)
            enc == batch_encode(Chunk(task, MapBatchSize, k))
            j == i - (k - 1) * MapBatchSize
        IN  [input_ids |-> enc.input_ids[j],
             attention_mask |-> enc.attention_mask[j]]]

\* the default collate function of DataLoader on rows that hold lists of
\* ints: per column, one tensor per position, each over the rows of the batch
Collate(items) ==
    [input_ids |->
        [p \in 1..MaxLength |-> [b \in 1..Len(items) |-> items[b].input_ids[p]]],
     attention_mask |->
        [p \in 1..MaxLength |->
            [b \in 1..Len(items) |-> items[b].attention_mask[p]]]]

\* torch.stack(tensors, dim=1) of equally long 1-d tensors
StackDim1(tensors) ==
    [b \in 1..Len(tensors[1]) |-> [p \in 1..Len(tensors) |-> tensors[p][b]]]

\* torch.stack(tensors, dim=0)
StackDim0(tensors) == [p \in 1..Len(tensors) |-> tensors[p]]

\* a batch in which each key keeps its own stacked column
FeedOwnColumns(batch) ==
    [input_ids |-> StackDim1(batch.input_ids),
     attention_mask |-> StackDim1(batch.attention_mask)]

\* a batch stacked along dim=0
FeedDim0(batch) ==
    [input_ids |-> StackDim0(batch.input_ids),
     attention_mask |-> StackDim0(batch.input_ids)]

\* line 90: {k: torch.stack(batch["input_ids"], dim=1) for k, v in
\* batch.items()}: every key of the collated batch is given the stacked
\* input_ids
Feed(batch) ==
    [input_ids |-> StackDim1(batch.input_ids),
     attention_mask |-> StackDim1(batch.input_ids)]

RECURSIVE SumSeq(_)
SumSeq(s) == IF Len(s) = 0 THEN 0 ELSE s[Len(s)] + SumSeq(SubSeq(s, 1, Len(s) - 1))

\* The forward pass of the masked-language model on one row, at position p:
\* the logits over the vocabulary.  The vector is held sparsely, as the
\* NumPeaks entries that stand out, in the form [index, score]; every other
\* entry of the vocabulary scores below all of them.  The entries depend on
\* the weights, on the position and on every token of the row that the mask
\* does not hide (a position whose mask is 0 is not attended to).
PositionLogits(weights, ids, mask, p) ==
    LET seen == [j \in 1..Len(ids) |->
                    IF mask[j] = 0 THEN 0
                    ELSE ids[j] * (31 * j + 17 * (IF j < p THEN p - j ELSE j - p) + 1)]
        base == (7919 * weights + 977 * p + SumSeq(seen)) % VocabSize
    IN  [j \in 1..NumPeaks |->
            [index |-> (base + 1789 * (j - 1)) % VocabSize,
             score |-> ((11 * j + base) % NumPeaks) * 301 - 1000]]

\* self.model(input_ids=..., attention_mask=...).logits: [rows, positions,
\* vocabulary]; a row's logits depend on that row alone
Forward(model, batch) ==
    [b \in 1..Len(batch.input_ids) |->
        [p \in 1..Len(batch.input_ids[b]) |->
            PositionLogits(model.weights, batch.input_ids[b],
                           batch.attention_mask[b], p)]]

\* the k best of the first j entries of a logit vector, best first
RECURSIVE BestOf(_, _, _)
BestOf(vec, j, k) ==
    IF j = 0 THEN <<>>
    ELSE LET prev == BestOf(vec, j - 1, k)
             pos == Cardinality({i \in 1..Len(prev) : prev[i].score > vec[j].score})
             ins == SubSeq(prev, 1, pos) \o <<vec[j]>> \o SubSeq(prev, pos + 1, Len(prev))
         IN  SubSeq(ins, 1, Min(k, Len(ins)))

Scores(best) == [i \in 1..Len(best) |-> best[i].score]

Indices(best) == [i \in 1..Len(best) |-> best[i].index]

\* torch.topk(logits, k, dim=-1): values and indices, [rows, positions, k]
topk(logits, k) ==
    [values |->
        [b \in 1..Len(logits) |-> [p \in 1..Len(logits[b]) |->
            Scores(BestOf(logits[b][p], Len(logits[b][p]), k))]],
     indices |->
        [b \in 1..Len(logits) |-> [p \in 1..Len(logits[b]) |->
            Indices(BestOf(logits[b][p], Len(logits[b][p]), k))]]]

\* the step between neighbouring half-precision values around magnitude a
\* (11 significant bits)
RECURSIVE Spacing(_)
Spacing(a) == IF a < 2048 THEN 1 ELSE 2 * Spacing(a \div 2)

\* .to(torch.float16) of an integral value: round to nearest, ties to even;
\* magnitudes from 65520 on become infinity, written 65536
ToFloat16(x) ==
    LET a == IF x < 0 THEN -x ELSE x
        step == Spacing(a)
        q == a \div step
        r == a % step
        up == 2 * r > step \/ (2 * r = step /\ q % 2 = 1)
        m == IF up THEN (q + 1) * step ELSE q * step
        h == IF m >= 65520 THEN 65536 ELSE m
    IN  IF x < 0 THEN -h ELSE h

\* .to(torch.int8): the low 8 bits, read as a signed number
ToInt8(x) == ((x + 128) % 256) - 128

\* .to(torch.int16): the low 16 bits, read as a signed number
ToInt16(x) == ((x + 32768) % 65536) - 32768

\* tensor.to(torch.float16) of a tensor of 1, 2, 3 dimensions
Float16Vector(v) == [i \in 1..Len(v) |-> ToFloat16(v[i])]

Float16Matrix(m) == [p \in 1..Len(m) |-> Float16Vector(m[p])]

Float16Tensor(t) == [b \in 1..Len(t) |-> Float16Matrix(t[b])]

\* tensor.to(torch.int16) of a tensor of 1, 2, 3 dimensions
Int16Vector(v) == [i \in 1..Len(v) |-> ToInt16(v[i])]

Int16Matrix(m) == [p \in 1..Len(m) |-> Int16Vector(m[p])]

Int16Tensor(t) == [b \in 1..Len(t) |-> Int16Matrix(t[b])]

(***************************************************************************)
(* The state machine.                                                      *)
(***************************************************************************)
None == <<>>
Some(x) == <<x>>

\* the command lines tried: each option absent or given with a value
PortChoices == {None, Some(<<"8", "0", "8", "0">>), Some(<<"-", "1">>),
                Some(<<"a">>), Some(<<"sup2">>), Some(<<>>)}
DeviceChoices == {None, Some("cpu")}
BatchSizeChoices == {None, Some(<<"3", "2">>)}
SubnetChoices == {None, Some(<<"2", "3">>), Some(<<"7">>)}

\* the texts of the tasks tried, and the tasks: n texts, taken in turn
Texts == << <<"the", "cat">>, <<"[MASK]">>, <<>>, <<"cat", "sat">>, <<"sat">> >>
TaskOf(n, s) == [i \in 1..n |-> Texts[((i + s) % Len(Texts)) + 1]]
TaskLens == {1, 64, 65, 130}
Tasks == {TaskOf(n, 0) : n \in TaskLens}

\* a request slot of the server with no call of compute in it
IdleReq == [pc |-> "idle", task |-> <<>>, data_loader |-> <<>>, next |-> 0,
            batch |-> <<>>, logit_list |-> <<>>, logit_index_list |-> <<>>,
            result |-> <<>>]

InitWith(line, slots) ==
    /\ cli = line
    /\ key_file_exists \in BOOLEAN
    /\ cuda_available \in BOOLEAN
    /\ mainpc = "start"
    /\ error = ""
    /\ args = None
    /\ port = None
    /\ key = None
    /\ miner = None
    /\ server = None
    /\ bound = None
    /\ reqs = [r \in slots |-> IdleReq]

Init ==
    \E p \in PortChoices, d \in DeviceChoices, b \in BatchSizeChoices,
       u \in SubnetChoices :
        InitWith([port |-> p, device |-> d, batch_size |-> b, subnetuid |-> u],
                 {"r1"})

\* lines 127-141: argparse, no type= given: a value from the command line
\* stays a str, an absent option takes its default as written
ParseArgs ==
    /\ mainpc = "start"
    /\ args' = Some(
         [name |-> "nya compute miner",
          keyfile |-> "nya-miner",
          ip |-> "0.0.0.0",
          port |-> IF cli.port = None THEN PyInt(DefaultPort)
                   ELSE PyStr(cli.port[1]),
          device |-> IF cli.device = None THEN "cuda" ELSE cli.device[1],
          batch_size |-> IF cli.batch_size = None THEN PyInt(DefaultBatchSize)
                         ELSE PyStr(cli.batch_size[1]),
          subnetuid |-> IF cli.subnetuid = None THEN PyInt(DefaultSubnetUid)
                        ELSE PyStr(cli.subnetuid[1])])
    /\ mainpc' = "parsed"
    /\ UNCHANGED <<cli, key_file_exists, cuda_available, error, port, key,
                   miner, server, bound, reqs>>

Abort(msg) ==
    /\ mainpc' = "aborted"
    /\ error' = msg

\* a port check that also takes a port that is an int already
PortAcceptedLenient(p) == p.t = "int" \/ IsDigit(p.s)

\* line 145: isinstance(port, str) and port.isdigit()
PortAccepted(p) == p.t = "str" /\ IsDigit(p.s)

\* lines 143-149
CheckPort ==
    /\ mainpc = "parsed"
    /\ LET p == args[1].port
       IN  IF PortAccepted(p) /\ (p.t = "int" \/ IntParses(p.s))
           THEN /\ port' = Some(IF p.t = "int" THEN p.n ELSE DecimalValue(p.s))
                /\ mainpc' = "port_checked"
                /\ UNCHANGED error
           ELSE /\ Abort(IF PortAccepted(p)
                         THEN "ValueError: invalid literal for int()"
                         ELSE "ValueError: Port must be an integer.")
                /\ UNCHANGED port
    /\ UNCHANGED <<cli, key_file_exists, cuda_available, args, key, miner,
                   server, bound, reqs>>

\* a key loader that makes up a key when the file is missing
KeyFileFoundLenient(exists) == TRUE

\* classic_load_key finds the key file
KeyFileFound(exists) == exists

\* lines 153-157
LoadKey ==
    /\ mainpc = "port_checked"
    /\ IF KeyFileFound(key_file_exists)
       THEN /\ key' = Some([keyfile |-> args[1].keyfile])
            /\ mainpc' = "key_loaded"
            /\ UNCHANGED error
       ELSE /\ Abort("FileNotFoundError: Key file not found.")
            /\ UNCHANGED key
    /\ UNCHANGED <<cli, key_file_exists, cuda_available, args, port, miner,
                   server, bound, reqs>>

\* AutoModelForMaskedLM.from_pretrained(model_name)
Pretrained == [name |-> "distilbert/distilbert-base-uncased", weights |-> 0,
               training |-> FALSE, device |-> "cpu"]

\* a device check that never refuses
CudaMissingIgnored(device, available) == FALSE

\* line 46: device == "cuda" and not torch.cuda.is_available()
CudaMissing(device, available) == device = "cuda" /\ ~available

\* lines 159-163, and NyaComputeMiner.__init__, lines 33-55
Construct ==
    /\ mainpc = "key_loaded"
    /\ IF CudaMissing(args[1].device, cuda_available)
       THEN /\ Abort("ValueError: CUDA is not available.")
            /\ UNCHANGED miner
       ELSE /\ LET dev == IF cuda_available THEN "cuda" ELSE "cpu"
               IN  miner' = Some(
                     [tokenizer |-> "distilbert/distilbert-base-uncased",
                      model |-> [Pretrained EXCEPT !.device = dev,
                                                   !.training = FALSE],
                      batch_size |-> args[1].batch_size,
                      device |-> dev])
            /\ mainpc' = "constructed"
            /\ UNCHANGED error
    /\ UNCHANGED <<cli, key_file_exists, cuda_available, args, port, key,
                   server, bound, reqs>>

\* line 170: args.subnetuid == 23
UseTestnet(subnetuid) == PyEq(subnetuid, PyInt(TestnetUid))

\* lines 164-180
CreateServer ==
    /\ mainpc = "constructed"
    /\ server' = Some(
         [module |-> miner[1],
          key |-> key[1],
          limiter |-> [capacity |-> BucketCapacity, refill_rate |-> RefillRate],
          subnets_whitelist |-> <<args[1].subnetuid>>,
          use_testnet |-> UseTestnet(args[1].subnetuid)])
    /\ mainpc' = "created"
    /\ UNCHANGED <<cli, key_file_exists, cuda_available, error, args, port,
                   key, miner, bound, reqs>>

\* line 182: uvicorn.run(app, host=args.ip, port=port)
Run ==
    /\ mainpc = "created"
    /\ bound' = Some([host |-> args[1].ip, port |-> port[1]])
    /\ mainpc' = "serving"
    /\ UNCHANGED <<cli, key_file_exists, cuda_available, error, args, port,
                   key, miner, server, reqs>>

(***************************************************************************)
(* compute, lines 64-123: one call per request slot; the calls of          *)
(* different slots interleave between the steps of the loop.               *)
(***************************************************************************)
\* the number a configured batch size stands for
Configured(v) == IF v.t = "int" THEN v.n ELSE DecimalValue(v.s)

\* a data loader that batches by the batch size the handler was given
DataLoaderConfigured(self, encoded) ==
    [dataset |-> encoded, batch_size |-> Configured(self.batch_size)]

\* line 82: DataLoader(encoded, batch_size=64)
DataLoader(self, encoded) ==
    [dataset |-> encoded, batch_size |-> LoaderBatchSize]

NumBatches(dl) == NumChunks(dl.dataset, dl.batch_size)

\* lines 65-87: the task is encoded and the data loader made
Receive(r, t) ==
    /\ mainpc = "serving"
    /\ reqs[r].pc = "idle"
    /\ reqs' = [reqs EXCEPT ![r] =
         [pc |-> "loop", task |-> t,
          data_loader |-> Some(DataLoader(miner[1], MapEncode(t))),
          next |-> 1, batch |-> None,
          logit_list |-> <<>>, logit_index_list |-> <<>>, result |-> None]]
    /\ UNCHANGED <<cli, key_file_exists, cuda_available, mainpc, error, args,
                   port, key, miner, server, bound>>

\* a forward pass that leaves the model changed, as a training step does
AfterForwardTrained(self) ==
    [self EXCEPT !.model.weights = (self.model.weights + 1) % 3]

\* lines 88-99: the handler after a forward pass under no_grad, in eval mode
AfterForward(self) == self

\* lines 89-99: one turn of the loop over the data loader
ForwardBatch(r) ==
    /\ mainpc = "serving"
    /\ reqs[r].pc = "loop"
    /\ reqs[r].next <= NumBatches(reqs[r].data_loader[1])
    /\ LET dl == reqs[r].data_loader[1]
           batch == Feed(Collate(Chunk(dl.dataset, dl.batch_size, reqs[r].next)))
           output == Forward(miner[1].model, batch)
           top == topk(output, TopKSize)
       IN  /\ reqs' = [reqs EXCEPT
                 ![r].batch = Some(batch),
                 ![r].next = @ + 1,
                 ![r].logit_list = Append(@, top.values),
                 ![r].logit_index_list = Append(@, top.indices)]
           /\ miner' = Some(AfterForward(miner[1]))
    /\ UNCHANGED <<cli, key_file_exists, cuda_available, mainpc, error, args,
                   port, key, server, bound>>

\* the per-batch outputs joined last batch first
RECURSIVE CatReversed(_)
CatReversed(list) ==
    IF Len(list) = 0 THEN <<>>
    ELSE list[Len(list)] \o CatReversed(SubSeq(list, 1, Len(list) - 1))

\* torch.cat(list, dim=0)
RECURSIVE Cat(_)
Cat(list) ==
    IF Len(list) = 0 THEN <<>>
    ELSE Cat(SubSeq(list, 1, Len(list) - 1)) \o list[Len(list)]

\* lines 100-114: the loop is over; the outputs are joined and converted.
\* elapsed_time, a reading of the clock, is left out of the result.
Finish(r) ==
    /\ mainpc = "serving"
    /\ reqs[r].pc = "loop"
    /\ reqs[r].next > NumBatches(reqs[r].data_loader[1])
    /\ reqs' = [reqs EXCEPT
         ![r].pc = "done",
         ![r].result = Some(
            [logit |-> Float16Tensor(Cat(reqs[r].logit_list)),
             logit_index |-> Int16Tensor(Cat(reqs[r].logit_index_list))])]
    /\ UNCHANGED <<cli, key_file_exists, cuda_available, mainpc, error, args,
                   port, key, miner, server, bound>>

\* line 123: the result is returned and the locals of the call are gone
Return(r) ==
    /\ mainpc = "serving"
    /\ reqs[r].pc = "done"
    /\ reqs' = [reqs EXCEPT ![r] = IdleReq]
    /\ UNCHANGED <<cli, key_file_exists, cuda_available, mainpc, error, args,
                   port, key, miner, server, bound>>

\* compute as a function of the handler and the task: lines 64-123 in one
compute(self, task) ==
    LET dl == DataLoader(self, MapEncode(task))
        tops == [k \in 1..NumBatches(dl) |->
                    topk(Forward(self.model,
                                 Feed(Collate(Chunk(dl.dataset, dl.batch_size, k)))),
                         TopKSize)]
    IN  [logit |->
            Float16Tensor(Cat([k \in 1..NumBatches(dl) |-> tops[k].values])),
         logit_index |->
            Int16Tensor(Cat([k \in 1..NumBatches(dl) |-> tops[k].indices]))]

Next ==
    \/ ParseArgs
    \/ CheckPort
    \/ LoadKey
    \/ Construct
    \/ CreateServer
    \/ Run
    \/ \E r \in DOMAIN reqs, t \in Tasks : Receive(r, t)
    \/ \E r \in DOMAIN reqs : ForwardBatch(r)
    \/ \E r \in DOMAIN reqs : Finish(r)
    \/ \E r \in DOMAIN reqs : Return(r)

\* every command line, one request at a time
Spec == Init /\ [][Next]_vars

\* the command line --port 8080 --subnetuid 7, two requests in flight
InitConc ==
    InitWith([port |-> Some(<<"8", "0", "8", "0">>), device |-> None,
              batch_size |-> None, subnetuid |-> Some(<<"7">>)],
             {"r1", "r2"})

SpecConc == InitConc /\ [][Next]_vars

(***************************************************************************)
(* The properties.                                                         *)
(***************************************************************************)
Done(r) == reqs[r].pc = "done"

AllIdle == \A r \in DOMAIN reqs : reqs[r] = IdleReq

\* the dimensions of a [rows, positions, k] tensor are n, MaxLength, TopKSize
HasShape(t, n) ==
    /\ Len(t) = n
    /\ \A b \in 1..Len(t) :
        /\ Len(t[b]) = MaxLength
        /\ \A p \in 1..Len(t[b]) : Len(t[b][p]) = TopKSize

C2_RowsInInputOrder ==
    \A r \in DOMAIN reqs : Done(r) =>
        \A i \in 1..Len(reqs[r].task) :
            LET alone == compute(miner[1], <<reqs[r].task[i]>>)
            IN  /\ reqs[r].result[1].logit[i] = alone.logit[1]
                /\ reqs[r].result[1].logit_index[i] = alone.logit_index[1]

C2_Witness ==
    \E r \in DOMAIN reqs :
        /\ Done(r)
        /\ Len(reqs[r].task) = 130
        /\ Len(reqs[r].logit_list) = 3
        /\ Len(reqs[r].logit_list[3]) = 2
        /\ reqs[r].result[1].logit_index[1] # reqs[r].result[1].logit_index[65]
        /\ reqs[r].result[1].logit_index[64] # reqs[r].result[1].logit_index[128]

\* the accelerator is asked for and there is none
CudaRequestedUnavailable ==
    /\ args # None
    /\ args[1].device = "cuda"
    /\ ~cuda_available

\* C3: with device "cuda" requested and no accelerator available the
\* constructor raises: no handler exists, the server is never made or
\* started and no request is served.
C3_NoHandlerWithoutCuda ==
    CudaRequestedUnavailable =>
        /\ miner = None
        /\ server = None
        /\ bound = None
        /\ AllIdle
        /\ mainpc \in {"parsed", "port_checked", "key_loaded", "aborted"}
        /\ (key # None /\ mainpc # "key_loaded" =>
                mainpc = "aborted" /\ error = "ValueError: CUDA is not available.")

C3_Witness ==
    /\ CudaRequestedUnavailable
    /\ key # None
    /\ mainpc = "aborted"
    /\ error = "ValueError: CUDA is not available."

\* the handler as the constructor made it
Constructed ==
    LET dev == IF cuda_available THEN "cuda" ELSE "cpu"
    IN  [tokenizer |-> "distilbert/distilbert-base-uncased",
         model |-> [Pretrained EXCEPT !.device = dev],
         batch_size |-> args[1].batch_size,
         device |-> dev]

Elements(t) ==
    {t[b][p][i] : b \in 1..Len(t), p \in 1..MaxLength, i \in 1..TopKSize}

\* C5: every value of logit_index is a vocabulary index, and the reduction
\* to 16-bit signed integers leaves every index the selection produced as
\* it was.
C5_IndicesValid ==
    \A r \in DOMAIN reqs : Done(r) =>
        /\ \A x \in Elements(reqs[r].result[1].logit_index) : 0 <= x /\ x < VocabSize
        /\ reqs[r].result[1].logit_index = Cat(reqs[r].logit_index_list)

C5_Witness ==
    \E r \in DOMAIN reqs :
        /\ Done(r)
        /\ \E x \in Elements(reqs[r].result[1].logit_index) : x >= 16384

\* no --port on the command line, or one that int() does not parse
PortMissingOrUnparsable == cli.port = None \/ ~IntParses(cli.port[1])

\* C6: with the port missing or unparsable main aborts with an error before
\* the key is loaded, the handler made or the server started.
C6_BadPortAborts ==
    PortMissingOrUnparsable =>
        /\ port = None
        /\ key = None
        /\ miner = None
        /\ server = None
        /\ bound = None
        /\ AllIdle
        /\ mainpc \in {"start", "parsed", "aborted"}
        /\ (mainpc = "aborted" =>
                error \in {"ValueError: Port must be an integer.",
                           "ValueError: invalid literal for int()"})

C6_Witness ==
    /\ cli.port = None
    /\ mainpc = "aborted"
    /\ error = "ValueError: Port must be an integer."

\* C7: with the key file missing main aborts with a file-not-found error,
\* after the port check and before the handler is made; the server is never
\* started.
C7_MissingKeyAborts ==
    ~key_file_exists =>
        /\ key = None
        /\ miner = None
        /\ server = None
        /\ bound = None
        /\ AllIdle
        /\ mainpc \in {"start", "parsed", "port_checked", "aborted"}
        /\ (port # None /\ mainpc # "port_checked" =>
                mainpc = "aborted"
                /\ error = "FileNotFoundError: Key file not found.")
        /\ (error = "FileNotFoundError: Key file not found." => port # None)

C7_Witness ==
    /\ ~key_file_exists
    /\ port # None
    /\ mainpc = "aborted"
    /\ error = "FileNotFoundError: Key file not found."

\* C8: the server is made with test-network mode on exactly when the subnet
\* identifier is 23, be it the default or given as --subnetuid 23, and its
\* whitelist holds that identifier alone.
C8_TestnetIffSubnet23 ==
    server # None =>
        /\ server[1].use_testnet = (Configured(args[1].subnetuid) = 23)
        /\ Len(server[1].subnets_whitelist) = 1
        /\ Configured(server[1].subnets_whitelist[1])
             = Configured(args[1].subnetuid)

\* the batch sizes a handler can be configured with
BatchSizeValues == {PyInt(DefaultBatchSize), PyStr(<<"3", "2">>), PyInt(1)}

C10_MaskIsInputIds ==
    \A r \in DOMAIN reqs : reqs[r].batch # None =>
        LET texts == Chunk(reqs[r].task, 64, reqs[r].next - 1)
            enc == batch_encode(texts)
        IN  /\ reqs[r].batch[1].input_ids = enc.input_ids
            /\ reqs[r].batch[1].attention_mask = enc.input_ids
            /\ reqs[r].batch[1].attention_mask # enc.attention_mask

C10_Witness ==
    \E r \in DOMAIN reqs :
        /\ reqs[r].batch # None
        /\ reqs[r].next = 3
        /\ Len(reqs[r].batch[1].attention_mask) = 1

====
